---- MODULE Spec2Model ----
(***************************************************************************)
(* The user-preferences endpoint of tmarks                                 *)
(* (functions/api/v1/preferences.ts) over the user_preferences table, with *)
(* the two optional columns added by the migration.                        *)
(*                                                                         *)
(* The store is the only shared state.  A handler invocation is a request  *)
(* record; every awaited store statement is one atomic step of it, and the *)
(* synchronous code between two awaits belongs to the step that precedes   *)
(* it or is a local step of its own (Validate).                            *)
(***************************************************************************)
EXTENDS Integers, FiniteSets, Sequences, TLC

\* Bound of the model: the largest reading of the millisecond clock.
MaxClock == 1

\* preferences.ts line 100: the page_size range.
MinPageSize == 10
MaxPageSize == 100

Users == {"u1", "u2"}
Slots == {"r1", "r2"}

\* JSON null in a body, SQL NULL in a row.
NULL == "<null>"
\* The value of a property the fetched row object does not have.
MISSING == "<undefined>"

BaseFields == {"theme", "page_size", "view_mode", "density"}
OptionalFields == {"tag_layout", "sort_by"}
Fields == BaseFields \cup OptionalFields

DefaultTagLayout == "grid"
DefaultSortBy == "popular"

\* The allowed set of each field, as the validation spells it.
Allowed(f) ==
  CASE f = "theme" -> {"light", "dark"}
    [] f = "page_size" -> MinPageSize..MaxPageSize
    [] f = "view_mode" -> {"list", "card", "minimal", "title"}
    [] f = "density" -> {"compact", "normal", "comfortable"}
    [] f = "tag_layout" -> {"grid", "masonry"}
    [] f = "sort_by" -> {"created", "updated", "pinned", "popular"}

\* JavaScript truthiness of a supplied value: 0, "" and null are falsy.
Truthy(f, v) ==
  IF f = "page_size" THEN v # 0 ELSE v \notin {"", NULL}

\* One validation rule: `body.f && !allowed(body.f)`.
Violates(body, f) ==
  /\ f \in DOMAIN body
  /\ Truthy(f, body[f])
  /\ body[f] \notin Allowed(f)

ValidationOrder ==
  <<"theme", "page_size", "view_mode", "density", "tag_layout", "sort_by">>

\* The index of the first rule the body violates, 0 when it violates none.
FirstViolation(body) ==
  LET bad == {i \in 1..Len(ValidationOrder) : Violates(body, ValidationOrder[i])}
  IN  IF bad = {} THEN 0 ELSE CHOOSE i \in bad : \A j \in bad : i <= j

ValidationMessage(f) ==
  CASE f = "theme" -> "Invalid theme value"
    [] f = "page_size" -> "Page size must be between 10 and 100"
    [] f = "view_mode" -> "Invalid view mode"
    [] f = "density" -> "Invalid density value"
    [] f = "tag_layout" -> "Invalid tag layout value"
    [] f = "sort_by" -> "Invalid sort_by value"

\* BuildUpdates with the two optional columns forgotten.
BuildUpdatesBaseOnly(body, tagLayoutSupported, sortBySupported) ==
  {f \in DOMAIN body : f \in BaseFields}

\* The columns of the SET list: `body.f !== undefined`, and for the optional
\* columns also the probe's answer.
BuildUpdates(body, tagLayoutSupported, sortBySupported) ==
  {f \in DOMAIN body :
     \/ f \in BaseFields
     \/ f = "tag_layout" /\ tagLayoutSupported
     \/ f = "sort_by" /\ sortBySupported}

\* MaskedOptional with `&&` between its two cases.
MaskedOptionalBoth(body, tagLayoutSupported, sortBySupported) ==
  /\ "tag_layout" \in DOMAIN body /\ ~tagLayoutSupported
  /\ "sort_by" \in DOMAIN body /\ ~sortBySupported

\* The condition of the no-op branch: a supplied optional column is absent.
MaskedOptional(body, tagLayoutSupported, sortBySupported) ==
  \/ "tag_layout" \in DOMAIN body /\ ~tagLayoutSupported
  \/ "sort_by" \in DOMAIN body /\ ~sortBySupported

\* Coalesce testing `=== null` only.
CoalesceNullOnly(v, d) == IF v = NULL THEN d ELSE v

\* `v ?? d`
Coalesce(v, d) == IF v \in {NULL, MISSING} THEN d ELSE v

\* The response shape built from a fetched row.
Project(row) ==
  [theme      |-> row.theme,
   page_size  |-> row.page_size,
   view_mode  |-> row.view_mode,
   density    |-> row.density,
   tag_layout |-> Coalesce(row.tag_layout, DefaultTagLayout),
   sort_by    |-> Coalesce(row.sort_by, DefaultSortBy),
   updated_at |-> row.updated_at]

NoPrefs == [none |-> TRUE]

(***************************************************************************)
(* The store                                                               *)
(***************************************************************************)
VARIABLES
  table,    \* user_preferences: user_id -> row, for the users that have a row
  columns,  \* the optional columns the live schema has
  clock,    \* the wall clock, in milliseconds
  req       \* the handler invocations, by slot

vars == <<table, columns, clock, req>>

\* A row as the table holds it before any update; an optional column that
\* exists holds its DEFAULT.
InitialRow(cols) ==
  [theme      |-> "light",
   page_size  |-> MinPageSize,
   view_mode  |-> "list",
   density    |-> "normal",
   tag_layout |-> IF "tag_layout" \in cols THEN DefaultTagLayout ELSE MISSING,
   sort_by    |-> IF "sort_by" \in cols THEN DefaultSortBy ELSE MISSING,
   updated_at |-> 0]

\* The errors a statement can raise.
NoSuchColumn(col) == [kind |-> "no such column", column |-> col]
StoreFault == [kind |-> "fault", column |-> ""]
NoError == [kind |-> "none", column |-> ""]
ConstraintError == [kind |-> "NOT NULL constraint failed", column |-> ""]

\* What `SELECT col FROM user_preferences LIMIT 1` can do.
ProbeOutcomes(col) ==
  IF col \in columns THEN {NoError, StoreFault}
  ELSE {NoSuchColumn(col), StoreFault}

\* IsNoSuchColumn with a regular expression that lost its i flag and is
\* spelled with a capital.
IsNoSuchColumnCaseSensitive(err, col) ==
  err.kind = "No such column" /\ err.column = col

\* The catch of hasTagLayoutColumn / hasSortByColumn: the regular expression
\* /no such column: <col>/i on the error's message.
IsNoSuchColumn(err, col) ==
  err.kind = "no such column" /\ err.column = col

\* NOT NULL on the two migrated columns.
ConstraintsHold(updates, body) ==
  \A f \in updates \cap OptionalFields : body[f] # NULL

\* ApplySet as a replacement of the whole row: a column the body does not
\* supply falls back to its initial value.
ApplySetReplaceRow(row, updates, body, stamp) ==
  [c \in DOMAIN row |->
     IF c = "updated_at" THEN stamp
     ELSE IF c \in updates THEN body[c]
     ELSE InitialRow(columns)[c]]

\* ApplySet without `updated_at = ?` in the SET list.
ApplySetKeepStamp(row, updates, body, stamp) ==
  [c \in DOMAIN row |-> IF c \in updates THEN body[c] ELSE row[c]]

\* UPDATE ... SET <updates>, updated_at = ? on one row.
ApplySet(row, updates, body, stamp) ==
  [c \in DOMAIN row |->
     IF c = "updated_at" THEN stamp
     ELSE IF c \in updates THEN body[c]
     ELSE row[c]]

\* The rows `WHERE user_id = ?` selects.
Matching(t, u) == {w \in DOMAIN t : w = u}

\* ExecUpdate guarded by `AND updated_at < ?`.
ExecUpdateIfNewer(t, u, updates, body, stamp) ==
  [w \in DOMAIN t |->
     IF w = u /\ t[w].updated_at < stamp
       THEN [c \in DOMAIN t[w] |->
               IF c = "updated_at" THEN stamp
               ELSE IF c \in updates THEN body[c]
               ELSE t[w][c]]
     ELSE t[w]]

\* UPDATE user_preferences SET ... WHERE user_id = ?
ExecUpdate(t, u, updates, body, stamp) ==
  [w \in DOMAIN t |->
     IF w \in Matching(t, u) THEN ApplySet(t[w], updates, body, stamp)
     ELSE t[w]]

(***************************************************************************)
(* Requests                                                                *)
(***************************************************************************)
\* The values of each field the bodies are drawn from: valid ones, one
\* outside the allowed set, and falsy ones.
InputValues(f) ==
  CASE f = "theme" -> {"dark", "bogus"}
    [] f = "page_size" -> {0, MinPageSize - 1, MinPageSize, MaxPageSize, MaxPageSize + 1}
    [] f = "view_mode" -> {"title", "bogus"}
    [] f = "density" -> {"bogus"}
    [] f = "tag_layout" -> {"masonry", "bogus", "", NULL}
    [] f = "sort_by" -> {"created", "bogus"}

EmptyBody == [f \in {} |-> 0]

\* A body is a function from the fields it supplies (those that are not
\* undefined) to their values.
Bodies ==
  {EmptyBody}
    \cup UNION {{(f :> v) : v \in InputValues(f)} : f \in Fields}
    \cup {[theme |-> "dark", tag_layout |-> "masonry"],
          [tag_layout |-> "masonry", sort_by |-> "created"],
          [theme |-> "dark", page_size |-> 0]}

NoneIssued == [probeTagLayout |-> 0, probeSortBy |-> 0, update |-> 0, select |-> 0]

\* A slot with no invocation in it.  Besides the handler's own locals
\* (body, tagLayoutSupported, sortBySupported, updates, now) and its
\* response (status, message, prefs) a request records what the properties
\* are stated with: the statements it issued, the errors the store raised
\* to it, the step that answered (at), the table and the clock on entry
\* (pre, reqTime), the place of its UPDATE among the UPDATEs of the
\* invocations in the slots (rank), and what the invocation before it in
\* the slot was (again, firstTime, prevOk, prevBody).
IdleReq ==
  [pc |-> "idle", kind |-> "none", user |-> "u1", body |-> EmptyBody,
   tagLayoutSupported |-> FALSE, sortBySupported |-> FALSE,
   updates |-> {}, now |-> 0,
   status |-> 0, message |-> "", prefs |-> NoPrefs,
   issued |-> NoneIssued, errors |-> {}, at |-> "",
   pre |-> EmptyBody, reqTime |-> 0, rank |-> 0,
   again |-> FALSE, firstTime |-> 0, prevOk |-> FALSE, prevBody |-> EmptyBody]

OffReq == [IdleReq EXCEPT !.pc = "off"]

\* A handler that has just been entered, for the authenticated user u.
Entered(kind, u) ==
  [IdleReq EXCEPT !.pc = "entry", !.kind = kind, !.user = u,
                  !.pre = table, !.reqTime = clock]

Respond(q, status, message, prefs) ==
  [q EXCEPT !.pc = "done", !.at = q.pc,
            !.status = status, !.message = message, !.prefs = prefs]

\* The catch of a handler: the error is logged and answered with 500.
Caught(q, err, message) ==
  Respond([q EXCEPT !.errors = @ \cup {err}], 500, message, NoPrefs)

Issue(q, stmt) == [q EXCEPT !.issued[stmt] = @ + 1]

Free(r) == req[r].pc \in {"idle", "done"}

\* The invocation that has just returned in slot r was a PATCH of user u
\* answered with success.
PatchedBefore(r, u) ==
  /\ req[r].pc = "done" /\ req[r].kind = "PATCH"
  /\ req[r].status = 200 /\ req[r].user = u

\* onRequestGet: one SELECT, then the response.
Get(r, u) ==
  /\ Free(r)
  /\ \E fault \in BOOLEAN :
       LET q == Issue([Entered("GET", u) EXCEPT
                         !.prevOk = PatchedBefore(r, u),
                         !.prevBody = IF PatchedBefore(r, u) THEN req[r].body
                                      ELSE EmptyBody],
                      "select")
       IN  req' = [req EXCEPT ![r] =
             IF fault THEN Caught(q, StoreFault, "Failed to get preferences")
             ELSE IF u \notin DOMAIN table
               THEN Respond(q, 404, "Preferences not found", NoPrefs)
             ELSE Respond(q, 200, "", Project(table[u]))]
  /\ UNCHANGED <<table, columns, clock>>

\* onRequestPatch up to its first await on the store: the body is parsed.
PatchStart(r, u, b) ==
  /\ Free(r)
  /\ req' = [req EXCEPT ![r] =
       [Entered("PATCH", u) EXCEPT
          !.pc = "probeTagLayout", !.body = b,
          !.again = /\ PatchedBefore(r, u)
                    /\ req[r].issued.update = 1
                    /\ req[r].body = b,
          !.firstTime = req[r].reqTime]]
  /\ UNCHANGED <<table, columns, clock>>

\* request.json() throws: the catch answers 500.
PatchBadJson(r, u) ==
  /\ Free(r)
  /\ req' = [req EXCEPT ![r] =
       Caught(Entered("PATCH", u), [kind |-> "SyntaxError", column |-> ""],
              "Failed to update preferences")]
  /\ UNCHANGED <<table, columns, clock>>

\* hasTagLayoutColumn
ProbeTagLayout(r) ==
  /\ req[r].pc = "probeTagLayout"
  /\ \E err \in ProbeOutcomes("tag_layout") :
       LET q == Issue(req[r], "probeTagLayout") IN
       req' = [req EXCEPT ![r] =
         IF err = NoError
           THEN [q EXCEPT !.pc = "probeSortBy", !.tagLayoutSupported = TRUE]
         ELSE IF IsNoSuchColumn(err, "tag_layout")
           THEN [q EXCEPT !.pc = "probeSortBy", !.tagLayoutSupported = FALSE,
                          !.errors = @ \cup {err}]
         ELSE Caught(q, err, "Failed to update preferences")]
  /\ UNCHANGED <<table, columns, clock>>

\* hasSortByColumn
ProbeSortBy(r) ==
  /\ req[r].pc = "probeSortBy"
  /\ \E err \in ProbeOutcomes("sort_by") :
       LET q == Issue(req[r], "probeSortBy") IN
       req' = [req EXCEPT ![r] =
         IF err = NoError
           THEN [q EXCEPT !.pc = "validate", !.sortBySupported = TRUE]
         ELSE IF IsNoSuchColumn(err, "sort_by")
           THEN [q EXCEPT !.pc = "validate", !.sortBySupported = FALSE,
                          !.errors = @ \cup {err}]
         ELSE Caught(q, err, "Failed to update preferences")]
  /\ UNCHANGED <<table, columns, clock>>

\* The validation, the construction of the SET list and the branch on it;
\* on the way to the UPDATE the clock is read into `now`.
Validate(r) ==
  /\ req[r].pc = "validate"
  /\ LET q == req[r]
         v == FirstViolation(q.body)
         updates == BuildUpdates(q.body, q.tagLayoutSupported, q.sortBySupported)
     IN  req' = [req EXCEPT ![r] =
           IF v # 0
             THEN Respond(q, 400, ValidationMessage(ValidationOrder[v]), NoPrefs)
           ELSE IF updates = {}
             THEN IF MaskedOptional(q.body, q.tagLayoutSupported, q.sortBySupported)
                    THEN [q EXCEPT !.pc = "noopRead"]
                    ELSE Respond(q, 400, "No valid fields to update", NoPrefs)
           ELSE [q EXCEPT !.pc = "update", !.updates = updates, !.now = clock]]
  /\ UNCHANGED <<table, columns, clock>>

\* The read of the no-op branch.
NoopRead(r) ==
  /\ req[r].pc = "noopRead"
  /\ \E fault \in BOOLEAN :
       LET q == Issue(req[r], "select") IN
       req' = [req EXCEPT ![r] =
         IF fault THEN Caught(q, StoreFault, "Failed to update preferences")
         ELSE IF q.user \notin DOMAIN table
           THEN Respond(q, 500, "Failed to load preferences", NoPrefs)
         ELSE Respond(q, 200, "", Project(table[q.user]))]
  /\ UNCHANGED <<table, columns, clock>>

\* The UPDATEs of the invocations now in the slots that have run.
Ran == {s \in Slots : req[s].rank > 0}

\* The store runs the UPDATE, which carries the `now` read before it was sent.
Update(r) ==
  /\ req[r].pc = "update"
  /\ \E fault \in BOOLEAN :
       LET q == Issue(req[r], "update")
           err == IF fault THEN StoreFault
                  ELSE IF ~ConstraintsHold(q.updates, q.body) THEN ConstraintError
                  ELSE NoError
       IN  /\ req' = [req EXCEPT ![r] =
                IF err # NoError THEN Caught(q, err, "Failed to update preferences")
                ELSE [q EXCEPT !.pc = "reread", !.rank = Cardinality(Ran) + 1]]
           /\ table' = IF err # NoError THEN table
                       ELSE ExecUpdate(table, q.user, q.updates, q.body, q.now)
  /\ UNCHANGED <<columns, clock>>

\* The read after the UPDATE.
ReRead(r) ==
  /\ req[r].pc = "reread"
  /\ \E fault \in BOOLEAN :
       LET q == Issue(req[r], "select") IN
       req' = [req EXCEPT ![r] =
         IF fault THEN Caught(q, StoreFault, "Failed to update preferences")
         ELSE IF q.user \notin DOMAIN table
           THEN Respond(q, 500, "Failed to load preferences after update", NoPrefs)
         ELSE Respond(q, 200, "", Project(table[q.user]))]
  /\ UNCHANGED <<table, columns, clock>>

\* A millisecond passes.
Tick ==
  /\ clock < MaxClock
  /\ clock' = clock + 1
  /\ UNCHANGED <<table, columns, req>>

\* One user has a row and the other has none; the schema is before the
\* migration, after it, or between its two ALTER statements.
InitStore ==
  /\ columns \in SUBSET OptionalFields
  /\ table = [u \in {"u1"} |-> InitialRow(columns)]
  /\ clock = 0

\* Invocations one after another.
Init ==
  /\ InitStore
  /\ req = [r \in Slots |-> IF r = "r1" THEN IdleReq ELSE OffReq]

Step(r) ==
  \/ ProbeTagLayout(r)
  \/ ProbeSortBy(r)
  \/ Validate(r)
  \/ NoopRead(r)
  \/ Update(r)
  \/ ReRead(r)

Next ==
  \/ \E r \in Slots, u \in Users : Get(r, u)
  \/ \E r \in Slots, u \in Users, b \in Bodies : PatchStart(r, u, b)
  \/ \E r \in Slots, u \in Users : PatchBadJson(r, u)
  \/ \E r \in Slots : Step(r)
  \/ Tick

Spec == Init /\ [][Next]_vars

(***************************************************************************)
(* Two PATCH invocations of one user that overlap: each has been entered   *)
(* and parsed its body, and their statements interleave in any order.      *)
(***************************************************************************)
RaceBodies ==
  {[theme |-> "dark"],
   [theme |-> "light"],
   [theme |-> "light", page_size |-> MaxPageSize],
   [view_mode |-> "title"],
   [tag_layout |-> "masonry"],
   [tag_layout |-> "masonry", sort_by |-> "created"]}

InitRace ==
  /\ InitStore
  /\ \E b1 \in RaceBodies, b2 \in RaceBodies :
       req = [r \in Slots |->
                [IdleReq EXCEPT !.pc = "probeTagLayout", !.kind = "PATCH",
                                !.user = "u1", !.pre = table, !.reqTime = clock,
                                !.body = IF r = "r1" THEN b1 ELSE b2]]

NextRace ==
  \/ \E r \in Slots : Step(r)
  \/ Tick

SpecRace == InitRace /\ [][NextRace]_vars

(***************************************************************************)
(* Properties                                                              *)
(***************************************************************************)
ColumnExists(f) == f \in BaseFields \/ f \in columns

Default(f) == IF f = "tag_layout" THEN "grid" ELSE "popular"

\* What a response built from `row` has to show.
Shown(row) ==
  [theme      |-> row.theme,
   page_size  |-> row.page_size,
   view_mode  |-> row.view_mode,
   density    |-> row.density,
   tag_layout |-> IF row.tag_layout \in {NULL, MISSING} THEN "grid" ELSE row.tag_layout,
   sort_by    |-> IF row.sort_by \in {NULL, MISSING} THEN "popular" ELSE row.sort_by,
   updated_at |-> row.updated_at]

ReturnedPatch(q) == q.kind = "PATCH" /\ q.pc = "done"
ReturnedGet(q) == q.kind = "GET" /\ q.pc = "done"

\* The PATCH got as far as its validation.
Validated(q) ==
  ReturnedPatch(q) /\ q.at \in {"validate", "noopRead", "update", "reread"}

\* The PATCH has run its validation and built its SET list.
PastValidation(q) ==
  \/ Validated(q)
  \/ q.kind = "PATCH" /\ q.pc \in {"noopRead", "update", "reread"}

\* C1: a PATCH with a body that passes the validation, run with no other
\* request beside it, leaves every field its body does not include, and
\* every row of another user, as it was when the request came in.
C1_FramePreserved ==
  \A r \in Slots :
    LET q == req[r] IN
    (ReturnedPatch(q) /\ FirstViolation(q.body) = 0) =>
      /\ DOMAIN table = DOMAIN q.pre
      /\ \A u \in DOMAIN table :
           IF u = q.user
             THEN \A f \in Fields \ DOMAIN q.body : table[u][f] = q.pre[u][f]
             ELSE table[u] = q.pre[u]

\* A PATCH of the theme alone has changed it while the page size, set by an
\* earlier request, stayed.
C1_Witness ==
  \E r \in Slots :
    /\ ReturnedPatch(req[r]) /\ req[r].status = 200
    /\ req[r].body = [theme |-> "dark"]
    /\ req[r].pre["u1"].theme = "light" /\ table["u1"].theme = "dark"
    /\ req[r].pre["u1"].page_size = MaxPageSize
    /\ table["u1"].page_size = MaxPageSize

\* C2: a PATCH whose body violates a validation rule returns 400 having
\* issued no statement at all, and leaves the table as it was.
C2_InvalidBodyTouchesNothing ==
  \A r \in Slots :
    LET q == req[r] IN
    (ReturnedPatch(q) /\ FirstViolation(q.body) # 0) =>
      /\ q.status = 400
      /\ q.issued = NoneIssued
      /\ table = q.pre

\* What GET answers when its SELECT returns.
GetAnswer(q) ==
  /\ q.status = 404 <=> q.user \notin DOMAIN table
  /\ q.user \in DOMAIN table =>
       q.status = 200 /\ q.prefs = Shown(table[q.user])

\* C3 as stated: GET returns 404 exactly when the user has no row, and
\* success with the stored values (defaults for a null or missing
\* tag_layout / sort_by) otherwise; the table is unchanged.
C3_GetAsStated ==
  \A r \in Slots :
    ReturnedGet(req[r]) => table = req[r].pre /\ GetAnswer(req[r])

\* C3 (amended): the same, for a GET whose SELECT does not fail; a failing
\* SELECT is answered with 500; the table is unchanged in every case.
C3_GetContract ==
  \A r \in Slots :
    LET q == req[r] IN
    ReturnedGet(q) =>
      /\ table = q.pre
      /\ IF StoreFault \in q.errors
           THEN q.status = 500 /\ q.prefs = NoPrefs
           ELSE GetAnswer(q)

\* A GET on the schema without tag_layout shows "grid" beside a stored theme.
C3_Witness ==
  \E r \in Slots :
    /\ ReturnedGet(req[r]) /\ req[r].status = 200
    /\ "tag_layout" \notin columns
    /\ req[r].prefs.tag_layout = "grid"
    /\ req[r].prefs.theme = "dark"

\* The body assigns nothing: each field it supplies is an optional column
\* the schema lacks.
AssignsNothing(q) == \A f \in DOMAIN q.body : f \in OptionalFields \ columns

\* The answer of the no-op branch when its read returns the row.
NoopAnswer(q) ==
  /\ q.status = 200
  /\ q.user \in DOMAIN table
  /\ q.prefs = Shown(table[q.user])
  /\ \A f \in DOMAIN q.body : q.prefs[f] = Default(f)

NoFieldsAnswer(q) ==
  q.status = 400 /\ q.message = "No valid fields to update"

\* C4 as stated: a validated body with an empty assignment list issues no
\* UPDATE and changes nothing; it is a success showing the current row when
\* it supplies an optional field whose column is absent, and the BadInput
\* "no valid fields" otherwise.
C4_EmptyAsStated ==
  \A r \in Slots :
    LET q == req[r] IN
    (Validated(q) /\ FirstViolation(q.body) = 0 /\ AssignsNothing(q)) =>
      /\ q.issued.update = 0
      /\ table = q.pre
      /\ IF DOMAIN q.body # {} THEN NoopAnswer(q) ELSE NoFieldsAnswer(q)

\* C4 (amended): the same, except that the no-op branch answers 500 when
\* its read of the row fails or finds no row for the user.
C4_EmptyAssignment ==
  \A r \in Slots :
    LET q == req[r] IN
    (Validated(q) /\ FirstViolation(q.body) = 0 /\ AssignsNothing(q)) =>
      /\ q.issued.update = 0
      /\ table = q.pre
      /\ IF DOMAIN q.body = {} THEN NoFieldsAnswer(q)
         ELSE IF StoreFault \in q.errors \/ q.user \notin DOMAIN table
           THEN q.status = 500 /\ q.prefs = NoPrefs
         ELSE NoopAnswer(q)

\* {tag_layout: "masonry"} on the schema without the column: success, "grid".
C4_Witness ==
  \E r \in Slots :
    /\ ReturnedPatch(req[r]) /\ req[r].status = 200
    /\ req[r].body = [tag_layout |-> "masonry"]
    /\ "tag_layout" \notin columns
    /\ req[r].prefs.tag_layout = "grid"
    /\ req[r].prefs.theme = "dark"
    /\ req[r].issued.update = 0

\* C5: page_size within 10..100 is accepted and written; a nonzero one
\* outside is rejected with BadInput and nothing is written; 0 is accepted
\* as if absent, so it is not assigned and the stored page_size stays.
C5_PageSizeBoundary ==
  \A r \in Slots :
    LET q == req[r] IN
    (/\ PastValidation(q)
     /\ "page_size" \in DOMAIN q.body
     /\ \A f \in DOMAIN q.body \ {"page_size"} : ~Violates(q.body, f)) =>
      LET p == q.body.page_size IN
      IF p \in MinPageSize..MaxPageSize
        THEN /\ q.status # 400
             /\ "page_size" \in q.updates
             /\ q.status = 200 => table[q.user].page_size = p
      ELSE IF p = 0
        THEN /\ "page_size" \notin q.updates
             /\ q.user \in DOMAIN table =>
                  table[q.user].page_size = q.pre[q.user].page_size
      ELSE /\ q.status = 400
           /\ q.message = "Page size must be between 10 and 100"
           /\ table = q.pre

\* C6: every stored row stays within the declared domains of its fields,
\* whatever the requests.
C6_RowsInDomain ==
  \A u \in DOMAIN table :
    \A f \in Fields : ColumnExists(f) => table[u][f] \in Allowed(f)

\* The fields of a body the round trip is about: a valid value for a column
\* that exists.
RoundTrip(body) ==
  {f \in DOMAIN body : ColumnExists(f) /\ body[f] \in Allowed(f)}

PatchReturnsSupplied(q) ==
  (ReturnedPatch(q) /\ q.status = 200) =>
    \A f \in RoundTrip(q.body) : q.prefs[f] = q.body[f]

GetReturnsSupplied(q) ==
  /\ q.status = 200
  /\ \A f \in RoundTrip(q.prevBody) : q.prefs[f] = q.prevBody[f]

\* C7 as stated: a successful PATCH returns the valid values it supplied,
\* and the GET issued after it returns them.
C7_RoundTripAsStated ==
  \A r \in Slots :
    LET q == req[r] IN
    /\ PatchReturnsSupplied(q)
    /\ (ReturnedGet(q) /\ q.prevOk) => GetReturnsSupplied(q)

\* C7 (amended): a successful PATCH returns the valid values it supplied,
\* and the GET issued after it returns them unless its SELECT fails, which
\* is answered with 500.
C7_RoundTrip ==
  \A r \in Slots :
    LET q == req[r] IN
    /\ PatchReturnsSupplied(q)
    /\ (ReturnedGet(q) /\ q.prevOk) =>
         IF StoreFault \in q.errors THEN q.status = 500
         ELSE GetReturnsSupplied(q)

\* theme "dark" has been written by a PATCH and read back by the next GET.
C7_Witness ==
  \E r \in Slots :
    /\ ReturnedGet(req[r]) /\ req[r].prevOk /\ req[r].status = 200
    /\ req[r].prevBody = [theme |-> "dark", tag_layout |-> "masonry"]
    /\ req[r].prefs.theme = "dark"
    /\ req[r].prefs.tag_layout = "masonry"

\* The second of two successful applications of one body to one user.
SecondApplication(q) ==
  /\ ReturnedPatch(q) /\ q.status = 200
  /\ q.again /\ q.issued.update = 1

\* The second application left the six fields as the first did, and both
\* stamps are at or after their requests.
SameStateBothStamped(q) ==
  LET row == table[q.user]
      first == q.pre[q.user]
  IN  /\ \A f \in Fields : row[f] = first[f]
      /\ row.updated_at = q.now
      /\ q.now >= q.reqTime
      /\ first.updated_at >= q.firstTime
      /\ row.updated_at >= first.updated_at

\* C8 as stated: the same body applied twice leaves the six fields as one
\* application does, and the two applications write two distinct
\* updated_at values, each not earlier than its request.
C8_IdempotentAsStated ==
  \A r \in Slots :
    LET q == req[r] IN
    SecondApplication(q) =>
      /\ SameStateBothStamped(q)
      /\ table[q.user].updated_at # q.pre[q.user].updated_at

\* C8 (amended): the same body applied twice leaves the six fields as one
\* application does; each application writes updated_at, not earlier than
\* its request, and the second value is not earlier than the first (the two
\* are equal when both UPDATEs fall in one millisecond).
C8_Idempotent ==
  \A r \in Slots : SecondApplication(req[r]) => SameStateBothStamped(req[r])

\* Two applications of {page_size: 100}, a millisecond apart.
C8_Witness ==
  \E r \in Slots :
    /\ SecondApplication(req[r])
    /\ req[r].body = [page_size |-> MaxPageSize]
    /\ table["u1"].page_size = MaxPageSize
    /\ req[r].pre["u1"].updated_at = 0
    /\ table["u1"].updated_at = 1

\* C9: in a PATCH every store error but "no such column" for the probed
\* column, and a read that finds no row, is answered with 500; that one
\* error is turned into "column absent" and the request goes on; no
\* statement is issued twice.
C9_StoreFailures ==
  \A r \in Slots :
    LET q == req[r] IN
    q.kind = "PATCH" =>
      /\ \A s \in DOMAIN q.issued : q.issued[s] <= 1
      /\ (StoreFault \in q.errors \/ ConstraintError \in q.errors) =>
           q.pc = "done" /\ q.status = 500 /\ q.prefs = NoPrefs
      /\ (q.pc = "done" /\ q.at \in {"noopRead", "reread"}
            /\ q.user \notin DOMAIN table) => q.status = 500
      /\ NoSuchColumn("tag_layout") \in q.errors =>
           ~q.tagLayoutSupported /\ q.at # "probeTagLayout"
      /\ NoSuchColumn("sort_by") \in q.errors =>
           ~q.sortBySupported /\ q.at # "probeSortBy"
      /\ (q.issued.probeTagLayout = 1 /\ q.errors = {}) => q.tagLayoutSupported

\* The probe's "no such column" was recovered, the UPDATE ran and the read
\* after it failed.
C9_Witness ==
  \E r \in Slots :
    /\ ReturnedPatch(req[r]) /\ req[r].status = 500
    /\ req[r].errors = {NoSuchColumn("tag_layout"), StoreFault}
    /\ req[r].at = "reread"
    /\ req[r].issued = [probeTagLayout |-> 1, probeSortBy |-> 1,
                        update |-> 1, select |-> 1]

\* C10: when two overlapping PATCHes of one user have both returned and
\* both UPDATEs ran, a column assigned by one of them holds its value, a
\* column assigned by both (and updated_at) holds the value of the UPDATE
\* that ran last, and any other column holds the value it had before.
C10_LastWriteWins ==
  (/\ \A r \in Slots : ReturnedPatch(req[r]) /\ req[r].rank > 0
   /\ \A r, s \in Slots : req[r].user = req[s].user) =>
    LET last == CHOOSE r \in Slots : req[r].rank = 2
        first == CHOOSE r \in Slots : req[r].rank = 1
        u == req[last].user
    IN  u \in DOMAIN table =>
          /\ \A f \in Fields :
               table[u][f] =
                 IF f \in req[last].updates THEN req[last].body[f]
                 ELSE IF f \in req[first].updates THEN req[first].body[f]
                 ELSE req[first].pre[u][f]
          /\ table[u].updated_at = req[last].now

\* r2's UPDATE ran first and r1's second; r2's response, read after both,
\* shows r1's view_mode beside its own theme.
C10_Witness ==
  /\ \A r \in Slots : ReturnedPatch(req[r]) /\ req[r].status = 200
  /\ req["r2"].rank = 1 /\ req["r1"].rank = 2
  /\ req["r2"].body = [theme |-> "dark"]
  /\ req["r1"].body = [view_mode |-> "title"]
  /\ req["r2"].prefs.view_mode = "title"
  /\ table["u1"].theme = "dark" /\ table["u1"].view_mode = "title"
  /\ req["r2"].now = 0 /\ table["u1"].updated_at = 1

====
